---------------------------- MODULE Spec2Model ----------------------------
(***************************************************************************)
(* Request matching and mock dispatch of mockllm: the shared structural    *)
(* matcher (compareMessages, mapContains, sliceContains), the three        *)
(* providers' requestsMatch / findMatchingMock, and the registries built   *)
(* by NewServer.                                                           *)
(*                                                                         *)
(* A byte string is a sequence of one-character strings.  A JSON value     *)
(* (what a Go value marshals to, and what json.Unmarshal produces into an  *)
(* `any`) is a record of one uniform shape:                                *)
(*   k  : "null" | "bool" | "num" | "str" | "obj" | "arr" | "bad"          *)
(*   b  : the boolean of a "bool"                                          *)
(*   n  : the number of a "num" (naturals)                                 *)
(*   s  : the bytes of a "str"                                             *)
(*   ks : the keys of an "obj", strictly ascending in byte order           *)
(*   vs : the values of an "obj" (parallel to ks) or the items of an "arr" *)
(* "bad" is a Go value json.Marshal rejects (a NaN, a channel, a union     *)
(* with more than one variant set).                                        *)
(***************************************************************************)
EXTENDS Naturals, Sequences, FiniteSets

VARIABLES
    mocks,         \* provider -> its mocks, as NewServer built them
    googleSource,  \* which of the two GoogleProvider sources is built
    pc,            \* client -> "idle" | "scan" | "done"
    request,       \* client -> [vendor, messages] of the request in flight
    idx,           \* client -> position of findMatchingMock's range loop
    found,         \* client -> index of the mock returned, 0 for nil
    call,          \* the matcher's call frame: [matchType, expected, actual]
    ret,           \* the matcher's result
    cpc            \* the matcher's position: "off" | "call" | "ret"

vars ==
    <<mocks, googleSource, pc, request, idx, found, call, ret, cpc>>

----------------------------------------------------------------------------
(* Bytes *)

\* The bytes the model uses, in ascending byte order.
ByteOrder ==
    << " ", "\"", ",", "0", "1", "2", "3", "4", "5", "6", "7", "8", "9", ":",
       "[", "\\", "]", "a", "b", "c", "d", "e", "f", "g", "h", "i", "j", "k",
       "l", "m", "n", "o", "p", "q", "r", "s", "t", "u", "v", "w", "x", "y",
       "z", "{", "}" >>

Ord(c) ==
    CHOOSE i \in 1..Len(ByteOrder) : ByteOrder[i] = c

DigitChars ==
    << "0", "1", "2", "3", "4", "5", "6", "7", "8", "9" >>

IsDigit(c) ==
    \E i \in 1..10 : DigitChars[i] = c

DigitVal(c) ==
    (CHOOSE i \in 1..10 : DigitChars[i] = c) - 1

\* Byte-wise order of two byte strings (the order of sorted map keys).
RECURSIVE BytesLess(_, _)
BytesLess(x, y) ==
    IF y = <<>> THEN FALSE
    ELSE IF x = <<>> THEN TRUE
    ELSE IF x[1] = y[1] THEN BytesLess(Tail(x), Tail(y))
    ELSE Ord(x[1]) < Ord(y[1])

\* bytes.Contains(s, sub)
bytesContains(s, sub) ==
    \E i \in 0..Len(s) :
        /\ i + Len(sub) <= Len(s)
        /\ SubSeq(s, i + 1, i + Len(sub)) = sub

\* bytes.Equal(x, y)
bytesEqual(x, y) ==
    x = y

----------------------------------------------------------------------------
(* Values *)

VNull ==
    [k |-> "null", b |-> FALSE, n |-> 0, s |-> <<>>, ks |-> <<>>, vs |-> <<>>]

VBool(x) ==
    [k |-> "bool", b |-> x, n |-> 0, s |-> <<>>, ks |-> <<>>, vs |-> <<>>]

VNum(x) ==
    [k |-> "num", b |-> FALSE, n |-> x, s |-> <<>>, ks |-> <<>>, vs |-> <<>>]

VStr(cs) ==
    [k |-> "str", b |-> FALSE, n |-> 0, s |-> cs, ks |-> <<>>, vs |-> <<>>]

VObj(keys, vals) ==
    [k |-> "obj", b |-> FALSE, n |-> 0, s |-> <<>>, ks |-> keys, vs |-> vals]

VArr(items) ==
    [k |-> "arr", b |-> FALSE, n |-> 0, s |-> <<>>, ks |-> <<>>, vs |-> items]

VBad ==
    [k |-> "bad", b |-> FALSE, n |-> 0, s |-> <<>>, ks |-> <<>>, vs |-> <<>>]

\* map index: val, ok := m[key]
HasKey(m, key) ==
    \E i \in 1..Len(m.ks) : m.ks[i] = key

Get(m, key) ==
    m.vs[CHOOSE i \in 1..Len(m.ks) : m.ks[i] = key]

\* m[key] = val on a map, the keys kept in byte order.
Put(m, key, val) ==
    IF HasKey(m, key)
    THEN LET i == CHOOSE j \in 1..Len(m.ks) : m.ks[j] = key
         IN  [m EXCEPT !.vs[i] = val]
    ELSE LET p == Cardinality({j \in 1..Len(m.ks) : BytesLess(m.ks[j], key)})
         IN  [m EXCEPT
                !.ks = SubSeq(m.ks, 1, p) \o <<key>> \o SubSeq(m.ks, p + 1, Len(m.ks)),
                !.vs = SubSeq(m.vs, 1, p) \o <<val>> \o SubSeq(m.vs, p + 1, Len(m.vs))]

----------------------------------------------------------------------------
(* encoding/json *)

\* A string's bytes with the quote and the backslash escaped.
RECURSIVE escapeBytes(_)
escapeBytes(cs) ==
    IF cs = <<>> THEN <<>>
    ELSE (IF cs[1] = "\"" THEN <<"\\", "\"">>
          ELSE IF cs[1] = "\\" THEN <<"\\", "\\">>
          ELSE <<cs[1]>>) \o escapeBytes(Tail(cs))

encodeString(cs) ==
    <<"\"">> \o escapeBytes(cs) \o <<"\"">>

RECURSIVE encodeNat(_)
encodeNat(x) ==
    IF x < 10 THEN <<DigitChars[x + 1]>>
    ELSE encodeNat(x \div 10) \o <<DigitChars[(x % 10) + 1]>>

\* Whether json.Marshal succeeds on v.
RECURSIVE marshalOk(_)
marshalOk(v) ==
    /\ v.k # "bad"
    /\ \A i \in 1..Len(v.vs) : marshalOk(v.vs[i])

\* The bytes json.Marshal writes: compact, object keys sorted.
RECURSIVE encodeValue(_)
RECURSIVE encodeItems(_, _, _)
encodeItems(keys, vals, i) ==
    IF i > Len(vals) THEN <<>>
    ELSE (IF i > 1 THEN <<",">> ELSE <<>>)
         \o (IF keys = <<>> THEN <<>> ELSE encodeString(keys[i]) \o <<":">>)
         \o encodeValue(vals[i])
         \o encodeItems(keys, vals, i + 1)

encodeValue(v) ==
    CASE v.k = "null" -> <<"n", "u", "l", "l">>
      [] v.k = "bool" -> IF v.b THEN <<"t", "r", "u", "e">>
                         ELSE <<"f", "a", "l", "s", "e">>
      [] v.k = "num"  -> encodeNat(v.n)
      [] v.k = "str"  -> encodeString(v.s)
      [] v.k = "obj"  -> <<"{">> \o encodeItems(v.ks, v.vs, 1) \o <<"}">>
      [] v.k = "arr"  -> <<"[">> \o encodeItems(<<>>, v.vs, 1) \o <<"]">>
      [] OTHER        -> <<>>

\* json.Marshal(v): (bytes, err)
Marshal(v) ==
    IF marshalOk(v) THEN [err |-> FALSE, bytes |-> encodeValue(v)]
    ELSE [err |-> TRUE, bytes |-> <<>>]

\* The decoder: each parse returns the value read and the next position.
RECURSIVE parseString(_, _, _)
parseString(bs, i, acc) ==
    IF bs[i] = "\"" THEN [v |-> acc, i |-> i + 1]
    ELSE IF bs[i] = "\\" THEN parseString(bs, i + 2, Append(acc, bs[i + 1]))
    ELSE parseString(bs, i + 1, Append(acc, bs[i]))

RECURSIVE parseNat(_, _, _)
parseNat(bs, i, acc) ==
    IF i <= Len(bs) /\ IsDigit(bs[i])
    THEN parseNat(bs, i + 1, acc * 10 + DigitVal(bs[i]))
    ELSE [v |-> acc, i |-> i]

RECURSIVE parseValue(_, _)
RECURSIVE parseItems(_, _, _)
RECURSIVE parseMembers(_, _, _)
parseItems(bs, i, acc) ==
    LET r    == parseValue(bs, i)
        acc2 == Append(acc, r.v)
    IN  IF bs[r.i] = "," THEN parseItems(bs, r.i + 1, acc2)
        ELSE [v |-> VArr(acc2), i |-> r.i + 1]

parseMembers(bs, i, m) ==
    LET key == parseString(bs, i + 1, <<>>)
        r   == parseValue(bs, key.i + 1)
        m2  == Put(m, key.v, r.v)
    IN  IF bs[r.i] = "," THEN parseMembers(bs, r.i + 1, m2)
        ELSE [v |-> m2, i |-> r.i + 1]

parseValue(bs, i) ==
    CASE bs[i] = "n"  -> [v |-> VNull, i |-> i + 4]
      [] bs[i] = "t"  -> [v |-> VBool(TRUE), i |-> i + 4]
      [] bs[i] = "f"  -> [v |-> VBool(FALSE), i |-> i + 5]
      [] bs[i] = "\"" -> LET r == parseString(bs, i + 1, <<>>)
                         IN  [v |-> VStr(r.v), i |-> r.i]
      [] bs[i] = "["  -> IF bs[i + 1] = "]" THEN [v |-> VArr(<<>>), i |-> i + 2]
                         ELSE parseItems(bs, i + 1, <<>>)
      [] bs[i] = "{"  -> IF bs[i + 1] = "}" THEN [v |-> VObj(<<>>, <<>>), i |-> i + 2]
                         ELSE parseMembers(bs, i + 1, VObj(<<>>, <<>>))
      [] OTHER        -> LET r == parseNat(bs, i, 0)
                         IN  [v |-> VNum(r.v), i |-> r.i]

\* json.Unmarshal(bs, &val) into an `any`: (val, err)
Unmarshal(bs) ==
    IF bs = <<>> THEN [err |-> TRUE, val |-> VNull]
    ELSE LET r == parseValue(bs, 1)
         IN  [err |-> r.i # Len(bs) + 1, val |-> r.v]

----------------------------------------------------------------------------
(* The structural matcher *)

MatchTypeExact ==
    "exact"

MatchTypeContains ==
    "contains"

RECURSIVE mapContains(_, _)
RECURSIVE sliceContains(_, _)

\* The default case of both type switches: marshal both, bytes.Equal.
marshalEqual(x, y) ==
    LET ab == Marshal(x)
        bb == Marshal(y)
    IN  IF ab.err THEN FALSE
        ELSE IF bb.err THEN FALSE
        ELSE bytesEqual(ab.bytes, bb.bytes)

\* itemContains with a nested expected string tested as a substring of the
\* serialized actual item, as the top level does.
itemContainsSubstring(valA, valB) ==
    CASE valB.k = "null" -> valA.k = "null"
      [] valB.k = "obj"  -> valA.k = "obj" /\ mapContains(valA, valB)
      [] valB.k = "arr"  -> valA.k = "arr" /\ sliceContains(valA, valB)
      [] valB.k = "str"  -> bytesContains(Marshal(valA).bytes, valB.s)
      [] OTHER           -> marshalEqual(valA, valB)

\* One item of b against the item of a at the same key or index.
itemContains(valA, valB) ==
    CASE valB.k = "null" -> valA.k = "null"
      [] valB.k = "obj"  -> valA.k = "obj" /\ mapContains(valA, valB)
      [] valB.k = "arr"  -> valA.k = "arr" /\ sliceContains(valA, valB)
      [] OTHER           -> marshalEqual(valA, valB)

\* sliceContains accepting a longer slice a: only a shorter one is refused.
sliceContainsPrefix(a, b) ==
    IF Len(b.vs) = 0 THEN TRUE
    ELSE IF Len(a.vs) < Len(b.vs) THEN FALSE
    ELSE \A i \in 1..Len(b.vs) : itemContains(a.vs[i], b.vs[i])

\* sliceContains checks if slice a completely contains slice b.
sliceContains(a, b) ==
    IF Len(b.vs) = 0 THEN TRUE
    ELSE IF Len(a.vs) # Len(b.vs) THEN FALSE
    ELSE \A i \in 1..Len(b.vs) : itemContains(a.vs[i], b.vs[i])

\* mapContains refusing a map a with more keys than b.
mapContainsSameSize(a, b) ==
    IF Len(b.ks) = 0 THEN TRUE
    ELSE IF Len(a.ks) # Len(b.ks) THEN FALSE
    ELSE \A i \in 1..Len(b.ks) :
            /\ HasKey(a, b.ks[i])
            /\ itemContains(Get(a, b.ks[i]), b.vs[i])

\* mapContains checks if map a completely contains map b.
mapContains(a, b) ==
    IF Len(b.ks) = 0 THEN TRUE
    ELSE \A i \in 1..Len(b.ks) :
            /\ HasKey(a, b.ks[i])
            /\ itemContains(Get(a, b.ks[i]), b.vs[i])

\* compareContains with the remaining scalars compared by bytes.Equal.
compareContainsEqual(jsonExpected, jsonActual) ==
    LET e == Unmarshal(jsonExpected)
        a == Unmarshal(jsonActual)
    IN  IF e.err THEN FALSE
        ELSE IF a.err THEN FALSE
        ELSE IF e.val.k = "str" THEN bytesContains(jsonActual, e.val.s)
        ELSE CASE e.val.k = "obj" ->
                    IF a.val.k # "obj" THEN FALSE
                    ELSE mapContains(a.val, e.val)
               [] e.val.k = "arr" ->
                    IF a.val.k # "arr" THEN FALSE
                    ELSE sliceContains(a.val, e.val)
               [] OTHER -> bytesEqual(jsonActual, jsonExpected)

\* compareContains with the result of the map type assertion ignored.
compareContainsUntyped(jsonExpected, jsonActual) ==
    LET e == Unmarshal(jsonExpected)
        a == Unmarshal(jsonActual)
    IN  IF e.err THEN FALSE
        ELSE IF a.err THEN FALSE
        ELSE IF e.val.k = "str" THEN bytesContains(jsonActual, e.val.s)
        ELSE CASE e.val.k = "obj" -> mapContains(a.val, e.val)
               [] e.val.k = "arr" ->
                    IF a.val.k # "arr" THEN FALSE
                    ELSE sliceContains(a.val, e.val)
               [] OTHER -> bytesContains(jsonActual, jsonExpected)

\* The Contains case of compareMessages, after both values marshalled.
compareContains(jsonExpected, jsonActual) ==
    LET e == Unmarshal(jsonExpected)
        a == Unmarshal(jsonActual)
    IN  IF e.err THEN FALSE
        ELSE IF a.err THEN FALSE
        ELSE IF e.val.k = "str" THEN bytesContains(jsonActual, e.val.s)
        ELSE CASE e.val.k = "obj" ->
                    IF a.val.k # "obj" THEN FALSE
                    ELSE mapContains(a.val, e.val)
               [] e.val.k = "arr" ->
                    IF a.val.k # "arr" THEN FALSE
                    ELSE sliceContains(a.val, e.val)
               [] OTHER -> bytesContains(jsonActual, jsonExpected)

\* compareMessages compares two messages based on the match type.
compareMessages(matchType, expected, actual) ==
    LET je == Marshal(expected)
        ja == Marshal(actual)
    IN  IF je.err THEN FALSE
        ELSE IF ja.err THEN FALSE
        ELSE CASE matchType = MatchTypeExact    -> bytesEqual(je.bytes, ja.bytes)
               [] matchType = MatchTypeContains -> compareContains(je.bytes, ja.bytes)
               [] OTHER                         -> FALSE

----------------------------------------------------------------------------
(* The providers *)

Vendors ==
    {"openai", "anthropic", "google"}

GoogleSources ==
    {"delegating", "inline"}

Last(messages) ==
    messages[Len(messages)]

\* requestsMatch letting a request without messages match.
OpenAIRequestsMatchEmptyMatches(expected, messages) ==
    IF Len(messages) = 0 THEN TRUE
    ELSE compareMessages(expected.MatchType, expected.Message, Last(messages))

\* requestsMatch comparing the first message of the conversation.
AnthropicRequestsMatchFirst(expected, messages) ==
    IF Len(messages) = 0 THEN FALSE
    ELSE compareMessages(expected.MatchType, expected.Message, messages[1])

\* OpenAIProvider.requestsMatch
OpenAIRequestsMatch(expected, messages) ==
    IF Len(messages) = 0 THEN FALSE
    ELSE compareMessages(expected.MatchType, expected.Message, Last(messages))

\* AnthropicProvider.requestsMatch
AnthropicRequestsMatch(expected, messages) ==
    IF Len(messages) = 0 THEN FALSE
    ELSE compareMessages(expected.MatchType, expected.Message, Last(messages))

\* GoogleProvider.requestsMatch, the source that delegates.
GoogleRequestsMatchDelegating(expected, contents) ==
    IF Len(contents) = 0 THEN FALSE
    ELSE compareMessages(expected.MatchType, expected.Message, Last(contents))

\* genai.Content and genai.Part fields, read off the value the struct marshals
\* to (role, parts and text are omitempty: absent is the zero value).
KeyRole ==
    <<"r", "o", "l", "e">>

KeyParts ==
    <<"p", "a", "r", "t", "s">>

KeyText ==
    <<"t", "e", "x", "t">>

ContentRole(c) ==
    IF c.k = "obj" /\ HasKey(c, KeyRole) /\ Get(c, KeyRole).k = "str"
    THEN Get(c, KeyRole).s ELSE <<>>

ContentParts(c) ==
    IF c.k = "obj" /\ HasKey(c, KeyParts) /\ Get(c, KeyParts).k = "arr"
    THEN Get(c, KeyParts).vs ELSE <<>>

PartText(p) ==
    IF p.k = "obj" /\ HasKey(p, KeyText) /\ Get(p, KeyText).k = "str"
    THEN Get(p, KeyText).s ELSE <<>>

\* The parts' texts joined by single spaces.
RECURSIVE joinTexts(_, _)
joinTexts(parts, i) ==
    IF i > Len(parts) THEN <<>>
    ELSE (IF i > 1 THEN <<" ">> ELSE <<>>) \o PartText(parts[i])
         \o joinTexts(parts, i + 1)

\* GoogleProvider.requestsMatch, the source with its own comparison.
GoogleRequestsMatchInline(expected, contents) ==
    IF Len(contents) = 0 THEN FALSE
    ELSE LET lastMessage == Last(contents)
         IN  CASE expected.MatchType = MatchTypeExact ->
                    LET je == Marshal(expected.Message)
                        ja == Marshal(lastMessage)
                    IN  IF je.err THEN FALSE
                        ELSE IF ja.err THEN FALSE
                        ELSE bytesEqual(je.bytes, ja.bytes)
               [] expected.MatchType = MatchTypeContains ->
                    IF ContentRole(lastMessage) # ContentRole(expected.Message)
                    THEN FALSE
                    ELSE bytesContains(joinTexts(ContentParts(lastMessage), 1),
                                       joinTexts(ContentParts(expected.Message), 1))
               [] OTHER -> FALSE

GoogleRequestsMatch(source, expected, contents) ==
    IF source = "inline" THEN GoogleRequestsMatchInline(expected, contents)
    ELSE GoogleRequestsMatchDelegating(expected, contents)

\* p.requestsMatch(mock.Match, request) of the provider serving `vendor`.
requestsMatch(vendor, source, expected, messages) ==
    CASE vendor = "openai"    -> OpenAIRequestsMatch(expected, messages)
      [] vendor = "anthropic" -> AnthropicRequestsMatch(expected, messages)
      [] OTHER                -> GoogleRequestsMatch(source, expected, messages)

----------------------------------------------------------------------------
(* Bounds and the inputs drawn within them *)

\* The longest mock list of one provider in a configuration.
MaxMocks ==
    2

\* The longest conversation of a request.
MaxMessages ==
    2

\* The longest array among the values handed to the matcher.
MaxArrLen ==
    2

\* The requests that may be in flight at once (net/http serves each on its
\* own goroutine).
Clients ==
    {"c1", "c2"}

BoundedSeq(S, n) ==
    UNION {[1..m -> S] : m \in 0..n}

Hello ==
    <<"h", "e", "l", "l", "o">>

HelloThere ==
    <<"h", "e", "l", "l", "o", " ", "t", "h", "e", "r", "e">>

User ==
    <<"u", "s", "e", "r">>

KeyContent ==
    <<"c", "o", "n", "t", "e", "n", "t">>

KeyExtra ==
    <<"e", "x", "t", "r", "a">>

KeyFunctionCall ==
    <<"f", "u", "n", "c", "t", "i", "o", "n", "C", "a", "l", "l">>

\* Chat messages (OpenAI, Anthropic) as they marshal.
MsgHello ==
    VObj(<<KeyContent, KeyRole>>, <<VStr(Hello), VStr(User)>>)

MsgHelloThere ==
    VObj(<<KeyContent, KeyRole>>, <<VStr(HelloThere), VStr(User)>>)

\* genai.Content values as they marshal.
GPart(text) ==
    VObj(<<KeyText>>, <<VStr(text)>>)

GContent(role, parts) ==
    VObj(<<KeyParts, KeyRole>>, <<VArr(parts), VStr(role)>>)

GHello ==
    GContent(User, <<GPart(Hello)>>)

GHelloThere ==
    GContent(User, <<GPart(HelloThere)>>)

\* A content one of whose parts json.Marshal rejects.
GUnserializable ==
    GContent(User, <<VObj(<<KeyFunctionCall, KeyText>>, <<VBad, VStr(Hello)>>)>>)

MessagePool(vendor) ==
    IF vendor = "google" THEN {GHello, GHelloThere}
    ELSE {MsgHello, MsgHelloThere}

Conversations(vendor) ==
    BoundedSeq(MessagePool(vendor), MaxMessages)

Mock(name, matchType, message, response) ==
    [Name |-> name,
     Match |-> [MatchType |-> matchType, Message |-> message],
     Response |-> response]

\* The zero mock: what a nil *Mock stands for in the model.
NilMock ==
    Mock("", "", VNull, "")

\* The mocks a configuration may list for a chat provider.
ChatMockPool ==
    << Mock("exact-hello", MatchTypeExact, MsgHello, "r-exact"),
       Mock("regex", "regex", MsgHello, "r-regex"),
       Mock("unserializable", MatchTypeContains, VBad, "r-bad"),
       Mock("null", MatchTypeContains, VNull, "r-null"),
       Mock("empty-object", MatchTypeContains, VObj(<<>>, <<>>), "r-empty"),
       Mock("empty-string", MatchTypeContains, VStr(<<>>), "r-str") >>

\* The mocks a configuration may list for the Google provider.
GoogleMockPool ==
    << Mock("exact-hello", MatchTypeExact, GHello, "r-exact"),
       Mock("regex", "regex", GHello, "r-regex"),
       Mock("unserializable", MatchTypeContains, GUnserializable, "r-bad"),
       Mock("contains-hello", MatchTypeContains, GHello, "r-hello"),
       Mock("empty-object", MatchTypeContains, VObj(<<>>, <<>>), "r-empty"),
       Mock("role-only", MatchTypeContains,
            VObj(<<KeyRole>>, <<VStr(User)>>), "r-role") >>

\* A configuration lists, per provider, the pool's mocks at the chosen places.
ConfigOf(picks) ==
    [OpenAI    |-> [i \in 1..Len(picks) |-> ChatMockPool[picks[i]]],
     Anthropic |-> [i \in 1..Len(picks) |-> ChatMockPool[picks[i]]],
     Google    |-> [i \in 1..Len(picks) |-> GoogleMockPool[picks[i]]]]

Configs ==
    {ConfigOf(picks) : picks \in BoundedSeq(1..Len(ChatMockPool), MaxMocks)}

----------------------------------------------------------------------------
(* The server *)

\* NewServer: each provider gets a copy of its list, in the list's order.
NewServer(config) ==
    [openai    |-> [i \in 1..Len(config.OpenAI) |->
                      Mock(config.OpenAI[i].Name,
                           config.OpenAI[i].Match.MatchType,
                           config.OpenAI[i].Match.Message,
                           config.OpenAI[i].Response)],
     anthropic |-> [i \in 1..Len(config.Anthropic) |->
                      Mock(config.Anthropic[i].Name,
                           config.Anthropic[i].Match.MatchType,
                           config.Anthropic[i].Match.Message,
                           config.Anthropic[i].Response)],
     google    |-> [i \in 1..Len(config.Google) |->
                      Mock(config.Google[i].Name,
                           config.Google[i].Match.MatchType,
                           config.Google[i].Match.Message,
                           config.Google[i].Response)]]

NoRequest ==
    [vendor |-> "", messages |-> <<>>]

NoCall ==
    [matchType |-> "", expected |-> VNull, actual |-> VNull]

\* The state NewServer leaves: the providers built, no request in flight.
ServerInit(configs) ==
    /\ \E config \in configs : mocks = NewServer(config)
    /\ googleSource \in GoogleSources
    /\ pc = [c \in Clients |-> "idle"]
    /\ request = [c \in Clients |-> NoRequest]
    /\ idx = [c \in Clients |-> 0]
    /\ found = [c \in Clients |-> NilMock]
    /\ call = NoCall
    /\ ret = FALSE
    /\ cpc = "off"

\* Handle, up to the call of findMatchingMock: the request body decoded.
Receive(c) ==
    /\ pc[c] = "idle"
    /\ \E vendor \in Vendors : \E messages \in Conversations(vendor) :
          request' = [request EXCEPT ![c] = [vendor |-> vendor, messages |-> messages]]
    /\ idx' = [idx EXCEPT ![c] = 1]
    /\ found' = [found EXCEPT ![c] = NilMock]
    /\ pc' = [pc EXCEPT ![c] = "scan"]
    /\ UNCHANGED <<mocks, googleSource, call, ret, cpc>>

\* The range loop returning nil at the first mock that does not match.
loopStepAbort(ms, source, req, i) ==
    IF i > Len(ms)
    THEN [pc |-> "done", idx |-> i, found |-> NilMock]
    ELSE IF requestsMatch(req.vendor, source, ms[i].Match, req.messages)
    THEN [pc |-> "done", idx |-> i, found |-> ms[i]]
    ELSE [pc |-> "done", idx |-> i, found |-> NilMock]

\* One iteration of findMatchingMock's range loop, or its end.
loopStep(ms, source, req, i) ==
    IF i > Len(ms)
    THEN [pc |-> "done", idx |-> i, found |-> NilMock]
    ELSE IF requestsMatch(req.vendor, source, ms[i].Match, req.messages)
    THEN [pc |-> "done", idx |-> i, found |-> ms[i]]
    ELSE [pc |-> "scan", idx |-> i + 1, found |-> NilMock]

Scan(c) ==
    /\ pc[c] = "scan"
    /\ LET r == loopStep(mocks[request[c].vendor], googleSource, request[c], idx[c])
       IN  /\ pc' = [pc EXCEPT ![c] = r.pc]
           /\ idx' = [idx EXCEPT ![c] = r.idx]
           /\ found' = [found EXCEPT ![c] = r.found]
    /\ UNCHANGED <<mocks, googleSource, request, call, ret, cpc>>

\* Handle, after findMatchingMock: 404, or the mock's response written; the
\* request is over.
Respond(c) ==
    /\ pc[c] = "done"
    /\ pc' = [pc EXCEPT ![c] = "idle"]
    /\ request' = [request EXCEPT ![c] = NoRequest]
    /\ idx' = [idx EXCEPT ![c] = 0]
    /\ found' = [found EXCEPT ![c] = NilMock]
    /\ UNCHANGED <<mocks, googleSource, call, ret, cpc>>

\* One request at a time, every configuration within the bounds.
Init ==
    ServerInit(Configs)

Next ==
    Receive("c1") \/ Scan("c1") \/ Respond("c1")

Spec ==
    Init /\ [][Next]_vars

\* Requests served concurrently, over the configurations that list the exact
\* and the empty-object mocks.
ConcurrentConfigs ==
    {ConfigOf(picks) : picks \in BoundedSeq({1, 5}, MaxMocks)}

InitConcurrent ==
    ServerInit(ConcurrentConfigs)

NextConcurrent ==
    \E c \in Clients : Receive(c) \/ Scan(c) \/ Respond(c)

SpecConcurrent ==
    InitConcurrent /\ [][NextConcurrent]_vars

----------------------------------------------------------------------------
(* The matcher on its own: one call of compareMessages *)

MatchTypes ==
    {MatchTypeExact, MatchTypeContains, "regex"}

KeyK ==
    <<"k">>

KeyX ==
    <<"x">>

StrA ==
    VStr(<<"a">>)

\* The values nested inside objects and arrays.
NestLeaves ==
    {VNull, VNum(1), StrA, VStr(<<"a", "b">>), VStr(<<"a", "\"">>)}

Leaves ==
    NestLeaves \cup {VBool(TRUE), VNum(10), VStr(<<"\\">>)}

Objs1 ==
    {VObj(<<>>, <<>>)}
    \cup {VObj(<<KeyK>>, <<l>>) : l \in NestLeaves}
    \cup {VObj(<<KeyK, KeyX>>, <<l, m>>) : l \in NestLeaves, m \in NestLeaves}

Arrs1 ==
    {VArr(items) : items \in BoundedSeq(NestLeaves, MaxArrLen)}

\* Containers nested one level further down.
Inner ==
    {VObj(<<>>, <<>>), VObj(<<KeyK>>, <<StrA>>), VObj(<<KeyK, KeyX>>, <<StrA, StrA>>)}
    \cup {VArr(items) : items \in BoundedSeq({StrA}, MaxArrLen)}

Objs2 ==
    {VObj(<<KeyK>>, <<c>>) : c \in Inner}

Objs2x ==
    {VObj(<<KeyK, KeyX>>, <<c, StrA>>) : c \in Inner}

Arrs2 ==
    {VArr(<<c>>) : c \in Inner}

\* The messages of the documented scenario.
ScenarioExpected ==
    VObj(<<KeyContent, KeyRole>>, <<VStr(Hello), VStr(User)>>)

ScenarioTail ==
    VObj(<<KeyContent, KeyExtra, KeyRole>>,
         <<VStr(HelloThere), VStr(<<"x">>), VStr(User)>>)

ScenarioEqualTail ==
    VObj(<<KeyContent, KeyExtra, KeyRole>>,
         <<VStr(Hello), VStr(<<"x">>), VStr(User)>>)

Vals ==
    Leaves \cup Objs1 \cup Arrs1 \cup Objs2 \cup Objs2x \cup Arrs2
    \cup {ScenarioExpected, ScenarioTail, ScenarioEqualTail}

InitMatch ==
    /\ mocks = NewServer(ConfigOf(<<>>))
    /\ googleSource = "delegating"
    /\ pc = [c \in Clients |-> "idle"]
    /\ request = [c \in Clients |-> NoRequest]
    /\ idx = [c \in Clients |-> 0]
    /\ found = [c \in Clients |-> NilMock]
    /\ \E mt \in MatchTypes : \E e \in Vals : \E a \in Vals :
          call = [matchType |-> mt, expected |-> e, actual |-> a]
    /\ ret = FALSE
    /\ cpc = "call"

Compare ==
    /\ cpc = "call"
    /\ ret' = compareMessages(call.matchType, call.expected, call.actual)
    /\ cpc' = "ret"
    /\ UNCHANGED <<mocks, googleSource, pc, request, idx, found, call>>

NextMatch ==
    Compare

SpecMatch ==
    InitMatch /\ [][NextMatch]_vars

----------------------------------------------------------------------------
(* Properties of dispatch *)

Done(c) ==
    pc[c] = "done"

Registry(c) ==
    mocks[request[c].vendor]

\* The places of the mocks that, each taken alone, match a conversation whose
\* only message is `last`.
Matching(vendor, ms, last) ==
    {i \in 1..Len(ms) : requestsMatch(vendor, googleSource, ms[i].Match, <<last>>)}

Least(S) ==
    CHOOSE i \in S : \A j \in S : i <= j

\* C1: for every vendor, registry and non-empty conversation, dispatch returns
\* the mock at the lowest place among those that match the last message on
\* their own, and nil iff none matches; a mock that does not match (unknown
\* match type, unserializable value) never hides a later one that does.
C1_FirstMatchWins ==
    \A c \in Clients :
        Done(c) /\ Len(request[c].messages) > 0 =>
            LET ms == Registry(c)
                M  == Matching(request[c].vendor, ms, Last(request[c].messages))
            IN  IF M = {} THEN found[c] = NilMock
                ELSE found[c] = ms[Least(M)] /\ idx[c] = Least(M)

\* Two mocks with different responses both match; the first is returned.
C1_Witness ==
    \E c \in Clients :
        /\ Done(c)
        /\ Len(request[c].messages) > 0
        /\ Matching(request[c].vendor, Registry(c), Last(request[c].messages)) = {1, 2}
        /\ Registry(c)[1].Response # Registry(c)[2].Response
        /\ found[c] = Registry(c)[1]

\* C2: for every vendor and every non-empty registry, dispatch on a
\* conversation without messages returns nil.
C2_EmptyConversationNotFound ==
    \A c \in Clients :
        Done(c) /\ Len(request[c].messages) = 0 /\ Len(Registry(c)) > 0 =>
            found[c] = NilMock

\* A request without messages was dispatched against a registry that lists
\* the empty-string and the null mock.
C2_Witness ==
    \E c \in Clients :
        /\ Done(c)
        /\ request[c].vendor = "openai"
        /\ Len(request[c].messages) = 0
        /\ Len(Registry(c)) = 2
        /\ Registry(c)[1].Match.Message = VStr(<<>>)
        /\ Registry(c)[2].Match.Message = VNull
        /\ found[c] = NilMock

SameTail(c, d) ==
    \/ Len(request[c].messages) = 0 /\ Len(request[d].messages) = 0
    \/ /\ Len(request[c].messages) > 0
       /\ Len(request[d].messages) > 0
       /\ Last(request[c].messages) = Last(request[d].messages)

\* C9: no step of any dispatch writes to a registry, and two dispatches to the
\* same vendor whose conversations end in the same message have the same
\* outcome, whatever ran before or runs beside them and whatever the messages
\* before the last.
C9_RegistryFixedOutcomePure ==
    /\ [][mocks' = mocks]_vars
    /\ [](\A c \in Clients : \A d \in Clients :
            /\ Done(c)
            /\ Done(d)
            /\ request[c].vendor = request[d].vendor
            /\ SameTail(c, d)
            => found[c] = found[d])

\* Two requests in flight at once to one vendor, different conversations with
\* the same last message, both answered with the same mock.
C9_Witness ==
    /\ Done("c1")
    /\ Done("c2")
    /\ request["c1"].vendor = request["c2"].vendor
    /\ request["c1"].messages # request["c2"].messages
    /\ SameTail("c1", "c2")
    /\ found["c1"] # NilMock
    /\ found["c1"] = found["c2"]

\* C10: the Google provider's requestsMatch decides as compareMessages does on
\* (match type, expected content, last content).
C10_GoogleDelegates ==
    \A c \in Clients :
        /\ pc[c] = "scan"
        /\ request[c].vendor = "google"
        /\ idx[c] <= Len(Registry(c))
        => LET m == Registry(c)[idx[c]].Match
           IN  GoogleRequestsMatch(googleSource, m, request[c].messages)
               = (IF Len(request[c].messages) = 0 THEN FALSE
                  ELSE compareMessages(m.MatchType, m.Message,
                                       Last(request[c].messages)))

----------------------------------------------------------------------------
(* Properties of the matcher *)

Returned ==
    cpc = "ret"

ContainsReturned ==
    Returned /\ call.matchType = MatchTypeContains

EmptyObj ==
    VObj(<<>>, <<>>)

\* Contains with the top level's rule for each variant applied at every depth.
RECURSIVE ContainsUniform(_, _)
ContainsUniform(e, a) ==
    CASE e.k = "null" -> a.k = "null"
      [] e.k = "str"  -> bytesContains(encodeValue(a), e.s)
      [] e.k = "obj"  -> /\ a.k = "obj"
                         /\ \A i \in 1..Len(e.ks) :
                               /\ HasKey(a, e.ks[i])
                               /\ ContainsUniform(e.vs[i], Get(a, e.ks[i]))
      [] e.k = "arr"  -> /\ a.k = "arr"
                         /\ \/ Len(e.vs) = 0
                            \/ /\ Len(a.vs) = Len(e.vs)
                               /\ \A i \in 1..Len(e.vs) :
                                     ContainsUniform(e.vs[i], a.vs[i])
      [] OTHER        -> encodeValue(a) = encodeValue(e)

\* Contains below the top level: a nested string, number or boolean must be
\* the same value.
RECURSIVE ContainsNested(_, _)
ContainsNested(e, a) ==
    CASE e.k = "null" -> a.k = "null"
      [] e.k = "obj"  -> /\ a.k = "obj"
                         /\ \A i \in 1..Len(e.ks) :
                               /\ HasKey(a, e.ks[i])
                               /\ ContainsNested(e.vs[i], Get(a, e.ks[i]))
      [] e.k = "arr"  -> /\ a.k = "arr"
                         /\ \/ Len(e.vs) = 0
                            \/ /\ Len(a.vs) = Len(e.vs)
                               /\ \A i \in 1..Len(e.vs) :
                                     ContainsNested(e.vs[i], a.vs[i])
      [] OTHER        -> a = e

\* C3 as claimed: under Contains with an expected object, the result is true
\* iff every expected key is present and Contains holds recursively under the
\* top level's rules (a nested string matching as a substring).
C3_NestedAsTopLevel ==
    ContainsReturned /\ call.expected.k = "obj" =>
        ret = ContainsUniform(call.expected, call.actual)

\* C3 as amended: under Contains with an expected object, the result is true
\* iff actual is an object holding every expected key and, per key, a nested
\* null meets null, a nested object or array is contained recursively, and a
\* nested string, number or boolean is the same value.
C3_NestedByEquality ==
    ContainsReturned /\ call.expected.k = "obj" =>
        ret = ContainsNested(call.expected, call.actual)

\* The documented scenario: content "hello" against "hello there" is refused.
C3_Witness ==
    /\ ContainsReturned
    /\ call.expected = ScenarioExpected
    /\ call.actual = ScenarioTail
    /\ ret = FALSE

\* An expected and an actual array of different lengths at the same place of
\* the two trees, the expected one at least minLen long.
RECURSIVE LengthsDiffer(_, _, _)
LengthsDiffer(e, a, minLen) ==
    \/ /\ e.k = "arr"
       /\ a.k = "arr"
       /\ \/ Len(e.vs) >= minLen /\ Len(e.vs) # Len(a.vs)
          \/ /\ Len(e.vs) = Len(a.vs)
             /\ \E i \in 1..Len(e.vs) : LengthsDiffer(e.vs[i], a.vs[i], minLen)
    \/ /\ e.k = "obj"
       /\ a.k = "obj"
       /\ \E i \in 1..Len(e.ks) :
             /\ HasKey(a, e.ks[i])
             /\ LengthsDiffer(e.vs[i], Get(a, e.ks[i]), minLen)

\* C4 as claimed: arrays of different lengths, the expected one of any length
\* (zero included), at the top or nested, never match under Contains.
C4_AnyLengthMismatchFails ==
    ContainsReturned /\ LengthsDiffer(call.expected, call.actual, 0) =>
        ret = FALSE

\* C4 as amended: a non-empty expected array never matches an actual array of
\* another length under Contains, at the top or nested.
C4_NonEmptyLengthMismatchFails ==
    ContainsReturned /\ LengthsDiffer(call.expected, call.actual, 1) =>
        ret = FALSE

\* A nested non-empty expected array against a longer actual one, refused.
C4_Witness ==
    /\ ContainsReturned
    /\ call.expected = VObj(<<KeyK>>, <<VArr(<<StrA>>)>>)
    /\ call.actual = VObj(<<KeyK>>, <<VArr(<<StrA, StrA>>)>>)
    /\ ret = FALSE

NonStringScalar(v) ==
    v.k \in {"null", "num", "bool"}

\* C5 as claimed: an expected null, number or boolean matches under Contains
\* iff actual serializes to the same bytes.
C5_ScalarByEquality ==
    ContainsReturned /\ NonStringScalar(call.expected) =>
        ret = (encodeValue(call.actual) = encodeValue(call.expected))

\* C5 as amended: an expected null, number or boolean matches under Contains
\* iff its serialized form occurs in the serialized form of actual.
C5_ScalarBySubstring ==
    ContainsReturned /\ NonStringScalar(call.expected) =>
        LET eb == encodeValue(call.expected)
            ab == encodeValue(call.actual)
        IN  ret = (\E i \in 0..Len(ab) :
                     /\ i + Len(eb) <= Len(ab)
                     /\ \A j \in 1..Len(eb) : ab[i + j] = eb[j])

\* Expected 1 matches actual 10.
C5_Witness ==
    /\ ContainsReturned
    /\ call.expected = VNum(1)
    /\ call.actual = VNum(10)
    /\ ret = TRUE

\* C6: every value contains itself.
C6_ContainsReflexive ==
    ContainsReturned /\ call.expected = call.actual => ret = TRUE

\* a is e with one or more keys added, the shared keys carrying equal values.
ProperExtension(e, a) ==
    /\ e.k = "obj"
    /\ a.k = "obj"
    /\ Len(a.ks) > Len(e.ks)
    /\ \A i \in 1..Len(e.ks) : HasKey(a, e.ks[i]) /\ Get(a, e.ks[i]) = e.vs[i]

\* C7: an object extended by extra keys is matched by the original under
\* Contains and not under Exact.
C7_ExtraKeys ==
    Returned /\ ProperExtension(call.expected, call.actual) =>
        /\ call.matchType = MatchTypeContains => ret = TRUE
        /\ call.matchType = MatchTypeExact => ret = FALSE

\* An object with a nested container under one key, matched by itself with a
\* second key added.
C7_Witness ==
    /\ ContainsReturned
    /\ ProperExtension(call.expected, call.actual)
    /\ Len(call.expected.ks) = 1
    /\ call.expected.vs[1].k = "arr"
    /\ Len(call.expected.vs[1].vs) > 0
    /\ ret = TRUE

\* C8 as claimed: an empty expected object matches every actual value, at the
\* top and as the expected value of a key or of an array item.
C8_EmptyObjectMatchesAll ==
    ContainsReturned =>
        /\ call.expected = EmptyObj => ret = TRUE
        /\ /\ call.expected.k = "obj"
           /\ call.expected.vs = <<EmptyObj>>
           /\ call.actual.k = "obj"
           /\ HasKey(call.actual, call.expected.ks[1])
           => ret = TRUE
        /\ /\ call.expected = VArr(<<EmptyObj>>)
           /\ call.actual.k = "arr"
           /\ Len(call.actual.vs) = 1
           => ret = TRUE

\* C8 as amended: an empty expected object matches exactly the actual values
\* that are objects, at the top and as the expected value of a key or of an
\* array item.
C8_EmptyObjectMatchesObjects ==
    ContainsReturned =>
        /\ call.expected = EmptyObj => ret = (call.actual.k = "obj")
        /\ /\ call.expected.k = "obj"
           /\ call.expected.vs = <<EmptyObj>>
           /\ call.actual.k = "obj"
           /\ HasKey(call.actual, call.expected.ks[1])
           => ret = (Get(call.actual, call.expected.ks[1]).k = "obj")
        /\ /\ call.expected = VArr(<<EmptyObj>>)
           /\ call.actual.k = "arr"
           /\ Len(call.actual.vs) = 1
           => ret = (call.actual.vs[1].k = "obj")

\* The empty object against a string, refused.
C8_Witness ==
    /\ ContainsReturned
    /\ call.expected = EmptyObj
    /\ call.actual = StrA
    /\ ret = FALSE

=============================================================================
